---- MODULE Spec2Model ----
(***************************************************************************)
(* Error canceling reaction schemes of arkane/isodesmic.py: pruning of the *)
(* benchmark set, enumeration of the constraints, the MILP reaction        *)
(* finder (lpsolve and pyomo backends), the subset search over a FIFO      *)
(* queue, and the median of the reaction estimates.                        *)
(***************************************************************************)
EXTENDS Integers, Sequences, FiniteSets, TLC

VARIABLES
    pc,                  \* "new": before __init__; "idle": no call running; "search": in the search loop; "done": a call has ended
    target,              \* ErrorCancelingScheme.target (a species name)
    benchmark_input,     \* the benchmark_set argument of __init__
    allowed_atom_types,  \* SpeciesConstraints.allowed_atom_types
    max_num_constraints, \* SpeciesConstraints.max_num_constraints
    conserve_bonds,      \* SpeciesConstraints.conserve_bonds
    conserve_ring_size,  \* SpeciesConstraints.conserve_ring_size
    constraint_map,      \* ConstraintMap.mapping: a dictionary from labels to indices
    benchmark_set,       \* ErrorCancelingScheme.benchmark_set
    target_constraint,   \* ErrorCancelingScheme.target_constraint
    constraint_matrix,   \* ErrorCancelingScheme.constraint_matrix
    entry,               \* the method the caller entered
    n_reactions_max,     \* argument of the running call
    milp_software,       \* argument of the running call
    subset_queue,        \* local of multiple_error_canceling_reaction_search
    reaction_list,       \* local of multiple_error_canceling_reaction_search
    solver,              \* the solver collaborator: what a solve of each problem of this scheme can end with
    last_solve,          \* the last call of find_error_canceling_reaction: subset, solver status, solution, result
    ret,                 \* what the last finished call returned or raised
    rxn,                 \* an ErrorCancelingReaction built by a caller
    thermo,              \* the result of rxn.calculate_target_thermo()
    answered,            \* a deterministic solver: the outcome it has given for each problem so far
    previous,            \* the search that ended before the current call: its arguments and result
    seen_labels,         \* the labels a caller looked up in a ConstraintMap, in order of first lookup
    last_lookup,         \* the last lookup of a caller in a ConstraintMap
    first_enumerate,     \* for each structure, what its first enumerate call gave
    last_enumerate       \* the last enumerate call of a caller of SpeciesConstraints

vars == <<pc, target, benchmark_input, allowed_atom_types, max_num_constraints,
          conserve_bonds, conserve_ring_size, constraint_map, benchmark_set,
          target_constraint, constraint_matrix, entry, n_reactions_max,
          milp_software, subset_queue, reaction_list, solver, last_solve, ret, rxn, thermo,
          answered, previous, seen_labels, last_lookup, first_enumerate, last_enumerate>>

\* what callers keep of earlier calls
recordVars == <<answered, previous, seen_labels, last_lookup, first_enumerate, last_enumerate>>

schemeVars == <<target, benchmark_input, allowed_atom_types, max_num_constraints,
                conserve_bonds, conserve_ring_size, constraint_map, benchmark_set,
                target_constraint, constraint_matrix, solver>>

None == "None"
NaN == "nan"

\* ---------------------------------------------------------------- bounds
MaxReactions == 3      \* largest n_reactions_max given to a call
MaxV == 5              \* cap of the variables of the pyomo problem, which sets no upper bound
MaxSpecies == 2        \* most species in a reaction built by a caller
MaxStoich == 2         \* largest coefficient magnitude in a reaction built by a caller

\* ------------------------------------------------------- program constants
UpperBound == 4        \* lpsolve('set_upbo', lp, i, 4)
MaxTotal == 20         \* lpsolve('add_constraint', lp, np.ones(m), LE, 20)

\* ------------------------------------------------------------- molecules
\* A molecule is what the structure collaborator reports: get_element_count(),
\* enumerate_bonds() (both in dictionary iteration order) and the sizes of
\* getSmallestSetOfSmallestRings().
Mol(a, b, r) == [atoms |-> a, bonds |-> b, rings |-> r]

Molecule(name) ==
    CASE name = "CH4"       -> Mol(<< <<"C", 1>>, <<"H", 4>> >>, << <<"C-H", 4>> >>, <<>>)
      [] name = "C2H6"      -> Mol(<< <<"C", 2>>, <<"H", 6>> >>, << <<"C-C", 1>>, <<"C-H", 6>> >>, <<>>)
      [] name = "C3H8"      -> Mol(<< <<"C", 3>>, <<"H", 8>> >>, << <<"C-C", 2>>, <<"C-H", 8>> >>, <<>>)
      [] name = "nC5H12"    -> Mol(<< <<"C", 5>>, <<"H", 12>> >>, << <<"C-C", 4>>, <<"C-H", 12>> >>, <<>>)
      [] name = "nC6H14"    -> Mol(<< <<"C", 6>>, <<"H", 14>> >>, << <<"C-C", 5>>, <<"C-H", 14>> >>, <<>>)
      [] name = "iC6H14"    -> Mol(<< <<"C", 6>>, <<"H", 14>> >>, << <<"C-C", 5>>, <<"C-H", 14>> >>, <<>>)
      [] name = "neoC6H14"  -> Mol(<< <<"H", 14>>, <<"C", 6>> >>, << <<"C-H", 14>>, <<"C-C", 5>> >>, <<>>)
      [] name = "mC6H14"   -> Mol(<< <<"C", 6>>, <<"H", 14>> >>, << <<"C-C", 5>>, <<"C-H", 14>> >>, <<>>)
      [] name = "nC7H16"    -> Mol(<< <<"C", 7>>, <<"H", 16>> >>, << <<"C-C", 6>>, <<"C-H", 16>> >>, <<>>)
      [] name = "cC2H4O"    -> Mol(<< <<"C", 2>>, <<"H", 4>>, <<"O", 1>> >>,
                                   << <<"C-C", 1>>, <<"C-H", 4>>, <<"C-O", 2>> >>, <<3>>)
      [] name = "C2H5OH"    -> Mol(<< <<"C", 2>>, <<"H", 6>>, <<"O", 1>> >>,
                                   << <<"C-C", 1>>, <<"C-H", 5>>, <<"C-O", 1>>, <<"H-O", 1>> >>, <<>>)
      [] name = "CH3NH2"    -> Mol(<< <<"C", 1>>, <<"H", 5>>, <<"N", 1>> >>,
                                   << <<"C-H", 3>>, <<"C-N", 1>>, <<"H-N", 2>> >>, <<>>)
      [] name = "CH3SH"     -> Mol(<< <<"C", 1>>, <<"H", 4>>, <<"S", 1>> >>,
                                   << <<"C-H", 3>>, <<"C-S", 1>>, <<"H-S", 1>> >>, <<>>)

\* the target participants a scheme is built for
Targets == {"nC5H12", "nC6H14", "C2H5OH"}

\* the benchmark participants
Benchmarks == {"CH4", "C2H6", "C3H8", "iC6H14", "neoC6H14", "mC6H14", "cC2H4O", "nC5H12",
               "nC7H16"}

\* the benchmark lists a scheme is built from
BenchmarkLists ==
    {<<>>,
     <<"CH4">>, <<"C2H6">>, <<"iC6H14">>, <<"cC2H4O">>,
     <<"CH4", "C2H6">>, <<"C2H6", "CH4">>,
     <<"iC6H14", "neoC6H14">>, <<"neoC6H14", "iC6H14">>, <<"iC6H14", "mC6H14">>,
     <<"cC2H4O", "CH4">>, <<"CH4", "cC2H4O">>,
     <<"CH4", "C2H6", "cC2H4O">>, <<"cC2H4O", "CH4", "C2H6">>, <<"CH4", "cC2H4O", "C2H6">>,
     <<"CH4", "C2H6", "iC6H14">>, <<"iC6H14", "C2H6", "CH4">>,
     <<"iC6H14", "neoC6H14", "mC6H14">>, <<"neoC6H14", "CH4", "iC6H14">>,
     <<"nC5H12">>, <<"CH4", "nC5H12">>,
     <<"CH4", "C2H6", "C3H8">>}

\* a list of four: two pairs of species that each balance n-pentane
FourBenchmarks == <<"CH4", "C3H8", "iC6H14", "nC7H16">>

\* the structures a caller of SpeciesConstraints.enumerate hands in
Structures == {"CH4", "neoC6H14", "C2H5OH", "cC2H4O", "CH3NH2", "CH3SH"}

\* the allowed_atom_types a caller of SpeciesConstraints constructs it with
AllowedAtomTypes == {{}, {"C"}, {"C", "H"}}

\* the labels a caller of ConstraintMap looks up
Labels == {"C", "H", "C-C", "C-H", "3_ring"}

\* (H_f(298 K), unit) tuples handed to ErrorCancelingSpecies
LowLevelHf298(name) ==
    CASE name = "CH4"       -> <<-70, "kJ/mol">>
      [] name = "C2H6"      -> <<-80, "kJ/mol">>
      [] name = "C3H8"      -> <<-72, "kJ/mol">>
      [] name = "nC5H12"    -> <<-140, "kJ/mol">>
      [] name = "nC6H14"    -> <<-160000, "J/mol">>
      [] name = "iC6H14"    -> <<-170, "kJ/mol">>
      [] name = "neoC6H14"  -> <<-180000, "J/mol">>
      [] name = "mC6H14"   -> <<-168, "kJ/mol">>
      [] name = "nC7H16"    -> <<-185, "kJ/mol">>
      [] name = "cC2H4O"    -> <<-50, "kJ/mol">>
      [] name = "C2H5OH"    -> <<-230, "kJ/mol">>

HighLevelHf298(name) ==
    CASE name = "CH4"       -> <<-74, "kJ/mol">>
      [] name = "C2H6"      -> <<-84, "kJ/mol">>
      [] name = "C3H8"      -> <<-105, "kJ/mol">>
      [] name = "iC6H14"    -> <<-174, "kJ/mol">>
      [] name = "neoC6H14"  -> <<-186000, "J/mol">>
      [] name = "mC6H14"   -> <<-172, "kJ/mol">>
      [] name = "nC7H16"    -> <<-188, "kJ/mol">>
      [] name = "cC2H4O"    -> <<-52, "kJ/mol">>
      [] name = "nC5H12"    -> <<-140000, "J/mol">>

\* ScalarQuantity(value, units).value_si
ValueSI(q) == IF q[2] = "kJ/mol" THEN q[1] * 1000 ELSE q[1]

\* ScalarQuantity(value_si, 'J/mol')
ScalarQuantity(v, units) == [value_si |-> v, units |-> units]

\* ------------------------------------------------------------- helpers
Range(s) == {s[i] : i \in 1..Len(s)}

RECURSIVE SumSeq(_)
SumSeq(s) == IF s = <<>> THEN 0 ELSE s[1] + SumSeq(Tail(s))

Zeros(n) == [i \in 1..n |-> 0]

Keys(pairs) == {pairs[i][1] : i \in 1..Len(pairs)}

\* --------------------------------------------------------- ConstraintMap
\* ConstraintMap.__len__
ConstraintMapLen(mapping) == Cardinality(DOMAIN mapping)

\* a lookup that stores a new key with the length the mapping has after it
ConstraintMapGetItemCounted(mapping, item) ==
    IF item \in DOMAIN mapping
    THEN [mapping |-> mapping, index |-> mapping[item]]
    ELSE [mapping |-> mapping @@ (item :> ConstraintMapLen(mapping) + 1),
          index |-> ConstraintMapLen(mapping) + 1]

\* a lookup that gives a new key index 0 and moves every other key up by one
ConstraintMapGetItemFront(mapping, item) ==
    IF item \in DOMAIN mapping
    THEN [mapping |-> mapping, index |-> mapping[item]]
    ELSE [mapping |-> [k \in DOMAIN mapping |-> mapping[k] + 1] @@ (item :> 0),
          index |-> 0]

\* ConstraintMap.__getitem__: on KeyError the key is stored with
\* len(self.mapping) as its value, and that value is returned
ConstraintMapGetItem(mapping, item) ==
    IF item \in DOMAIN mapping
    THEN [mapping |-> mapping, index |-> mapping[item]]
    ELSE [mapping |-> mapping @@ (item :> ConstraintMapLen(mapping)),
          index |-> ConstraintMapLen(mapping)]

\* ---------------------------------------------------- SpeciesConstraints
\* 3*(len(allowed_atom_types)**2)+10
MaxNumConstraints(allowed) == 3 * (Cardinality(allowed) * Cardinality(allowed)) + 10

RingLabel(size) == ToString(size) \o "_ring"

\* the rings of a molecule as (label, 1) pairs, one per ring
RingPairs(rings) == [i \in 1..Len(rings) |-> <<RingLabel(rings[i]), 1>>]

\* an enumeration that skips a count whose index is past the end of the vector
RECURSIVE AddCountsDropping(_, _, _)
AddCountsDropping(pairs, mapping, vector) ==
    IF pairs = <<>> THEN [mapping |-> mapping, vector |-> vector, raised |-> FALSE]
    ELSE LET got == ConstraintMapGetItem(mapping, pairs[1][1])
         IN  IF got.index >= Len(vector)
             THEN AddCountsDropping(Tail(pairs), got.mapping, vector)
             ELSE AddCountsDropping(Tail(pairs), got.mapping,
                                    [vector EXCEPT ![got.index + 1] = @ + pairs[1][2]])

\* constraint_vector[self.constraint_map[label]] += count, for each pair in
\* turn; an index past the end of the vector raises (IndexError), the label
\* staying in the map
RECURSIVE AddCounts(_, _, _)
AddCounts(pairs, mapping, vector) ==
    IF pairs = <<>> THEN [mapping |-> mapping, vector |-> vector, raised |-> FALSE]
    ELSE LET got == ConstraintMapGetItem(mapping, pairs[1][1])
         IN  IF got.index >= Len(vector)
             THEN [mapping |-> got.mapping, vector |-> vector, raised |-> TRUE]
             ELSE AddCounts(Tail(pairs), got.mapping,
                            [vector EXCEPT ![got.index + 1] = @ + pairs[1][2]])

\* an enumeration that counts bonds and rings whatever the flags say
EnumerateAllKinds(mapping, maxNum, bonds, ringSize, molecule) ==
    AddCounts(molecule.atoms \o molecule.bonds \o RingPairs(molecule.rings),
              mapping, Zeros(maxNum))

\* SpeciesConstraints.enumerate
Enumerate(mapping, maxNum, bonds, ringSize, molecule) ==
    LET pairs == molecule.atoms
                 \o (IF bonds THEN molecule.bonds ELSE <<>>)
                 \o (IF ringSize THEN RingPairs(molecule.rings) ELSE <<>>)
    IN  AddCounts(pairs, mapping, Zeros(maxNum))

\* a pruning that keeps a species as soon as one of its labels is allowed
AllowedAnyLabel(species, allowed) ==
    \E label \in Keys(Molecule(species).atoms) : label \in allowed

\* a constructor that prunes nothing
PruneNothing(benchmarks, allowed) == benchmarks

\* ------------------------------------------ ErrorCancelingScheme.__init__
\* the for/else of the pruning loop: no label of the species breaks out
Allowed(species, allowed) ==
    \A label \in Keys(Molecule(species).atoms) : label \in allowed

Prune(benchmarks, allowed) == SelectSeq(benchmarks, LAMBDA s : Allowed(s, allowed))

\* -------------------------------- ErrorCancelingScheme.calculate_constraints
\* enumerate the benchmark species in order, rows collected in c_matrix
RECURSIVE EnumerateRows(_, _, _, _, _, _)
EnumerateRows(species, mapping, maxNum, bonds, ringSize, rows) ==
    IF species = <<>> THEN [mapping |-> mapping, rows |-> rows, raised |-> FALSE]
    ELSE LET e == Enumerate(mapping, maxNum, bonds, ringSize, Molecule(species[1]))
         IN  IF e.raised THEN [mapping |-> e.mapping, rows |-> rows, raised |-> TRUE]
             ELSE EnumerateRows(Tail(species), e.mapping, maxNum, bonds, ringSize,
                                Append(rows, e.vector))

\* a trimming that cuts one column too many
TrimShort(vector, cutoff) == SubSeq(vector, 1, cutoff - 1)

Trim(vector, cutoff) == SubSeq(vector, 1, cutoff)

CalculateConstraints(tgt, bset, mapping, maxNum, bonds, ringSize) ==
    LET t == Enumerate(mapping, maxNum, bonds, ringSize, Molecule(tgt))
        b == EnumerateRows(bset, t.mapping, maxNum, bonds, ringSize, <<>>)
        cutoff_index == ConstraintMapLen(b.mapping)
    IN  IF t.raised THEN [mapping |-> t.mapping, raised |-> TRUE,
                          target_constraints |-> None, c_matrix |-> None]
        ELSE IF b.raised THEN [mapping |-> b.mapping, raised |-> TRUE,
                               target_constraints |-> None, c_matrix |-> None]
        ELSE [mapping |-> b.mapping, raised |-> FALSE,
              target_constraints |-> Trim(t.vector, cutoff_index),
              c_matrix |-> [i \in 1..Len(b.rows) |-> Trim(b.rows[i], cutoff_index)]]

\* ------------------------------------------------ Python None for a cache
NoneValue == [none |-> TRUE]
Some(x) == [none |-> FALSE, value |-> x]

\* ------------------------------- find_error_canceling_reaction: the problem
\* np.take(self.constraint_matrix, benchmark_subset, axis=0); indices count from 0
Take(matrix, subset) == [i \in 1..Len(subset) |-> matrix[subset[i] + 1]]

\* np.tile(c_matrix, (2, 1))
Tile(c) == c \o c

\* np.sum(c_matrix, 1, dtype=int)
SumConstraints(c) == [i \in 1..Len(c) |-> SumSeq(c[i])]

\* the upper bounds lpsolve holds after "for i in range(m): set_upbo(lp, i, 4)":
\* lp_solve numbers its columns from 1, so the call for column 0 is refused and
\* column m keeps its default, no upper bound (the <= 20 row still limits it)
LpsolveUpbo(m) == [col \in 1..m |-> IF col \in 0..(m - 1) THEN UpperBound ELSE MaxTotal]

\* the pyomo model declares NonNegativeIntegers and nothing else
PyomoUpbo(m) == [col \in 1..m |-> MaxV]

\* the MILP handed to the backend for a subset
Problem(matrix, tconstraint, subset, software) ==
    LET c == Tile(Take(matrix, subset))
        m == Len(c)
    IN  [c_matrix |-> c,
         sum_constraints |-> SumConstraints(c),
         targets |-> [j \in 1..Len(tconstraint) |-> -1 * tconstraint[j]],
         m |-> m,
         n |-> Len(tconstraint),
         split |-> m \div 2,
         upbo |-> IF software = "lpsolve" THEN LpsolveUpbo(m) ELSE PyomoUpbo(m),
         total |-> IF software = "lpsolve" THEN MaxTotal ELSE m * MaxV]

\* ------------------------------------------------ the solver collaborator
\* Its contract: the assignments of non-negative integers to the m variables
\* that satisfy every row of the problem and every bound, and among them one of
\* least objective. The assignments are enumerated column by column; need[j]
\* is what the columns still to come must supply to row j,
\*     t[j] + sum over the reactant half - sum over the product half so far,
\* which a product column may not exceed, every entry of c_matrix being >= 0.
\* This yields the same set as filtering all assignments by the rows.
Least2(a, b) == IF a < b THEN a ELSE b

\* the largest value of a product column that overshoots no row
Fit(row, need, cap) ==
    LET quotients == {need[j] \div row[j] : j \in {k \in 1..Len(row) : row[k] > 0}}
    IN  IF \E q \in quotients : q < cap
        THEN CHOOSE q \in quotients : \A o \in quotients : q <= o
        ELSE cap

RECURSIVE Assignments(_, _, _, _)
Assignments(P, col, need, budget) ==
    IF col > P.m
    THEN IF \A j \in 1..P.n : need[j] = 0 THEN {<<>>} ELSE {}
    ELSE LET row == P.c_matrix[col]
             cap == Least2(P.upbo[col], budget)
             top == IF col <= P.split THEN cap ELSE Fit(row, need, cap)
             sign == IF col <= P.split THEN 1 ELSE -1
         IN  UNION {{<<v>> \o rest :
                        rest \in Assignments(P, col + 1,
                                             [j \in 1..P.n |-> need[j] + sign * v * row[j]],
                                             budget - v)} : v \in 0..top}

\* sum(v[i]*c[i,j] for i in r) - sum(v[i]*c[i,j] for i in p) == t[j]
Feasible(P) == Assignments(P, 1, [j \in 1..P.n |-> -1 * P.targets[j]], P.total)

\* set_obj_fn(lp, sum_constraints) / pyo.summation(model.v, model.s)
Objective(P, v) == SumSeq([i \in 1..P.m |-> v[i] * P.sum_constraints[i]])

\* the least objective over a non-empty set of assignments
Least(P, F) ==
    LET values == {Objective(P, v) : v \in F}
    IN  CHOOSE x \in values : \A y \in values : x <= y

\* a solver that settles for any assignment that satisfies the rows
OptimalAny(P) == Feasible(P)

Optimal(P) ==
    LET F == Feasible(P)
    IN  IF F = {} THEN {} ELSE LET least == Least(P, F) IN {v \in F : Objective(P, v) = least}

\* what a solve can end with: lp_solve's status 0 (OPTIMAL) with a solution,
\* 2 (INFEASIBLE), or 7 (TIMEOUT, the one second of set_timeout); pyomo's
\* SolverStatus ok with a solution, or warning
SolverOutcomes(P, software) ==
    LET best == Optimal(P)
    IN  IF software = "lpsolve"
        THEN {[status |-> 0, solution |-> v] : v \in best}
             \cup {[status |-> 7, solution |-> <<>>]}
             \cup (IF best = {} THEN {[status |-> 2, solution |-> <<>>]} ELSE {})
        ELSE {[status |-> "ok", solution |-> v] : v \in best}
             \cup (IF best = {} THEN {[status |-> "warning", solution |-> <<>>]} ELSE {})

\* ------------------------------ find_error_canceling_reaction: the result
\* ErrorCancelingReaction(target, species)
ErrorCancelingReaction(tgt, species) == [target |-> tgt, species |-> species]

\* reaction.species.update({key: value})
Update(species, key, value) ==
    [k \in DOMAIN species \cup {key} |-> IF k = key THEN value ELSE species[k]]

\* an assembly that gives the product half the sign of the reactant half
RECURSIVE AssembleSameSign(_, _, _, _, _, _, _)
AssembleSameSign(solution, index, split, subset, bset, species, subset_indices) ==
    IF index >= Len(solution) THEN [species |-> species, subset_indices |-> subset_indices]
    ELSE LET v == solution[index + 1]
         IN  IF v > 0
             THEN AssembleSameSign(solution, index + 1, split, subset, bset,
                                   Update(species, bset[subset[(index % split) + 1] + 1], -v),
                                   Append(subset_indices, index % split))
             ELSE AssembleSameSign(solution, index + 1, split, subset, bset, species,
                                   subset_indices)

\* an assembly that indexes the benchmark set with the row, not with the subset
RECURSIVE AssembleWholeSet(_, _, _, _, _, _, _)
AssembleWholeSet(solution, index, split, subset, bset, species, subset_indices) ==
    IF index >= Len(solution) THEN [species |-> species, subset_indices |-> subset_indices]
    ELSE LET v == solution[index + 1]
         IN  IF v > 0
             THEN AssembleWholeSet(solution, index + 1, split, subset, bset,
                                   IF index < split
                                   THEN Update(species, bset[(index % split) + 1], -v)
                                   ELSE Update(species, bset[(index % split) + 1], v),
                                   Append(subset_indices, index % split))
             ELSE AssembleWholeSet(solution, index + 1, split, subset, bset, species,
                                   subset_indices)

\* the loop over enumerate(solution); index counts from 0
RECURSIVE Assemble(_, _, _, _, _, _, _)
Assemble(solution, index, split, subset, bset, species, subset_indices) ==
    IF index >= Len(solution) THEN [species |-> species, subset_indices |-> subset_indices]
    ELSE LET v == solution[index + 1]
         IN  IF v > 0
             THEN Assemble(solution, index + 1, split, subset, bset,
                           IF index < split
                           THEN Update(species, bset[subset[index + 1] + 1], -v)
                           ELSE Update(species, bset[subset[(index % split) + 1] + 1], v),
                           Append(subset_indices, index % split))
             ELSE Assemble(solution, index + 1, split, subset, bset, species, subset_indices)

\* find_error_canceling_reaction for one outcome of the solve. kind is
\* "reaction" (reaction, subset_indices), "none_pair" (None, None),
\* "none" (a bare None)
FindErrorCancelingReaction(tgt, bset, subset, software, outcome) ==
    LET split == Len(subset)
        a == Assemble(outcome.solution, 0, split, subset, bset, <<>>, <<>>)
        found == [kind |-> "reaction",
                  reaction |-> ErrorCancelingReaction(tgt, a.species),
                  subset_indices |-> a.subset_indices]
        absent(kind) == [kind |-> kind, reaction |-> None, subset_indices |-> None]
    IN  IF software = "pyomo"
        THEN IF outcome.status # "ok" THEN absent("none") ELSE found
        ELSE IF outcome.status # 0 THEN absent("none_pair") ELSE found

\* a deletion that drops nothing
DeleteNothing(subset, index) == subset

\* a deletion that always drops the first entry
DeleteFirst(subset, index) == Tail(subset)

\* np.delete(subset, index)
Delete(subset, index) ==
    [i \in 1..(Len(subset) - 1) |-> IF i <= index THEN subset[i] ELSE subset[i + 1]]

\* np.arange(0, n)
Arange(n) == [i \in 1..n |-> i - 1]

\* a worklist that takes new subsets at its front
RECURSIVE EnqueueFront(_, _, _)
EnqueueFront(queue, subset, subset_indices) ==
    IF subset_indices = <<>> THEN queue
    ELSE EnqueueFront(<<Delete(subset, subset_indices[1])>> \o queue, subset,
                      Tail(subset_indices))

\* for index in subset_indices: subset_queue.append(np.delete(subset, index))
RECURSIVE Enqueue(_, _, _)
Enqueue(queue, subset, subset_indices) ==
    IF subset_indices = <<>> THEN queue
    ELSE Enqueue(Append(queue, Delete(subset, subset_indices[1])), subset, Tail(subset_indices))

\* --------------------------- ErrorCancelingReaction.calculate_target_thermo
\* sum(map(lambda spec: spec[0].<level>_hf298.value_si*spec[1], species.items()))
RECURSIVE SumItems(_, _, _)
SumItems(species, keys, level) ==
    IF keys = {} THEN 0
    ELSE LET spec == CHOOSE k \in keys : TRUE
             hf298 == IF level = "low" THEN LowLevelHf298(spec) ELSE HighLevelHf298(spec)
         IN  ValueSI(hf298) * species[spec] + SumItems(species, keys \ {spec}, level)

\* an estimate that adds the low-level reaction enthalpy instead of subtracting it
CalculateTargetThermoAdded(reaction) ==
    LET low_level_h_rxn == SumItems(reaction.species, DOMAIN reaction.species, "low")
                           - ValueSI(LowLevelHf298(reaction.target))
        target_thermo == SumItems(reaction.species, DOMAIN reaction.species, "high")
                         + low_level_h_rxn
    IN  ScalarQuantity(target_thermo, "J/mol")

\* an estimate that leaves the target's low-level enthalpy out
CalculateTargetThermoNoTarget(reaction) ==
    LET low_level_h_rxn == SumItems(reaction.species, DOMAIN reaction.species, "low")
        target_thermo == SumItems(reaction.species, DOMAIN reaction.species, "high")
                         - low_level_h_rxn
    IN  ScalarQuantity(target_thermo, "J/mol")

CalculateTargetThermo(reaction) ==
    LET low_level_h_rxn == SumItems(reaction.species, DOMAIN reaction.species, "low")
                           - ValueSI(LowLevelHf298(reaction.target))
        target_thermo == SumItems(reaction.species, DOMAIN reaction.species, "high")
                         - low_level_h_rxn
    IN  ScalarQuantity(target_thermo, "J/mol")

\* ------------------------------------------------------------- np.median
RECURSIVE Insert(_, _)
Insert(sorted, x) ==
    IF sorted = <<>> THEN <<x>>
    ELSE IF x <= sorted[1] THEN <<x>> \o sorted
    ELSE <<sorted[1]>> \o Insert(Tail(sorted), x)

RECURSIVE Sort(_)
Sort(s) == IF s = <<>> THEN <<>> ELSE Insert(Sort(Tail(s)), s[1])

\* an aggregate that takes the lowest estimate
MedianLowest(values) == IF Len(values) = 0 THEN NaN ELSE Sort(values)[1]

\* the middle of the sorted values, the mean of the two middle ones for an
\* even count, nan for none
Median(values) ==
    LET sorted == Sort(values)
        n == Len(values)
    IN  IF n = 0 THEN NaN
        ELSE IF n % 2 = 1 THEN sorted[(n + 1) \div 2]
        ELSE (sorted[n \div 2] + sorted[(n \div 2) + 1]) \div 2

\* h298_list[i] = rxn.calculate_target_thermo().value_si
H298List(reactions) == [i \in 1..Len(reactions) |-> CalculateTargetThermo(reactions[i]).value_si]

\* ================================================================ behaviour
NoSolve == [subset |-> <<>>, software |-> "none", status |-> "none", solution |-> <<>>,
            result |-> [kind |-> "never", reaction |-> None, subset_indices |-> None]]
NoReturn == [kind |-> "none"]
Returned(value) == [kind |-> "returned", value |-> value]
Raised(error) == [kind |-> "raised", value |-> error]
NoReaction == ErrorCancelingReaction(None, <<>>)

Software == {"lpsolve", "pyomo"}

\* the non-empty ascending index lists over 0..n-1
Subsets(n) ==
    {s \in UNION {[1..k -> 0..(n - 1)] : k \in 1..n} :
        \A i \in 1..(Len(s) - 1) : s[i] < s[i + 1]}

\* the backends before any problem of the scheme exists
NoSolver == [software \in Software |-> <<>>]

\* the outcomes of the backends on every problem the caches give rise to
Solver(matrix, tconstraint) ==
    [software \in Software |->
        [subset \in Subsets(Len(matrix)) |->
            SolverOutcomes(Problem(matrix, tconstraint, subset, software), software)]]

\* no search has ended yet
NoCall == [n_reactions_max |-> -1, milp_software |-> "none", initialized |-> FALSE,
           kind |-> "none", reaction_list |-> <<>>]

\* no label has been looked up yet
NoLookup == [item |-> None, index |-> -1, known |-> FALSE]

\* no structure has been enumerated yet
NoEnumerate == [molecule |-> None, before |-> <<>>, raised |-> FALSE, vector |-> <<>>,
                repeat |-> FALSE]

\* the backends have answered nothing yet
NoAnswer == [software \in Software |-> <<>>]

\* callers hold nothing of earlier calls
InitRecords ==
    /\ answered = NoAnswer
    /\ previous = NoCall
    /\ seen_labels = <<>>
    /\ last_lookup = NoLookup
    /\ first_enumerate = [s \in Structures |-> NoneValue]
    /\ last_enumerate = NoEnumerate

\* before construction: a target participant and a list of benchmark participants
Init ==
    /\ pc = "new"
    /\ target \in Targets
    /\ benchmark_input \in BenchmarkLists
    /\ allowed_atom_types = {}
    /\ max_num_constraints = 0
    /\ conserve_bonds = TRUE
    /\ conserve_ring_size = TRUE
    /\ constraint_map = <<>>
    /\ benchmark_set = <<>>
    /\ target_constraint = NoneValue
    /\ constraint_matrix = NoneValue
    /\ solver = NoSolver
    /\ entry = "none"
    /\ n_reactions_max = 0
    /\ milp_software = "none"
    /\ subset_queue = <<>>
    /\ reaction_list = <<>>
    /\ last_solve = NoSolve
    /\ ret = NoReturn
    /\ rxn = NoReaction
    /\ thermo = NoneValue
    /\ InitRecords

callVars == <<entry, n_reactions_max, milp_software, subset_queue, reaction_list, last_solve, ret>>

\* ErrorCancelingScheme.__init__
Construct ==
    /\ pc = "new"
    /\ allowed_atom_types' = Keys(Molecule(target).atoms)
    /\ max_num_constraints' = MaxNumConstraints(Keys(Molecule(target).atoms))
    /\ conserve_bonds' = TRUE
    /\ conserve_ring_size' = TRUE
    /\ constraint_map' = <<>>
    /\ benchmark_set' = Prune(benchmark_input, Keys(Molecule(target).atoms))
    /\ target_constraint' = NoneValue
    /\ constraint_matrix' = NoneValue
    /\ pc' = "idle"
    /\ UNCHANGED <<target, benchmark_input, solver, callVars, rxn, thermo, recordVars>>

\* initialize() has set the caches
Initialized == ~target_constraint.none /\ ~constraint_matrix.none

\* ErrorCancelingScheme.initialize
Initialize ==
    /\ pc = "idle"
    /\ LET r == CalculateConstraints(target, benchmark_set, constraint_map,
                                     max_num_constraints, conserve_bonds, conserve_ring_size)
       IN  /\ constraint_map' = r.mapping
           /\ IF r.raised
              THEN /\ ret' = Raised("IndexError")
                   /\ entry' = "initialize"
                   /\ pc' = "done"
                   /\ UNCHANGED <<target_constraint, constraint_matrix, solver>>
              ELSE /\ target_constraint' = Some(r.target_constraints)
                   /\ constraint_matrix' = Some(r.c_matrix)
                   /\ solver' = IF /\ Initialized
                                   /\ constraint_matrix.value = r.c_matrix
                                   /\ target_constraint.value = r.target_constraints
                                THEN solver  \* the same problems as before
                                ELSE Solver(r.c_matrix, r.target_constraints)
                   /\ UNCHANGED <<pc, entry, ret>>
    /\ UNCHANGED <<target, benchmark_input, allowed_atom_types, max_num_constraints,
                   conserve_bonds, conserve_ring_size, benchmark_set, n_reactions_max,
                   milp_software, subset_queue, reaction_list, last_solve, rxn, thermo, recordVars>>

\* IsodesmicScheme.__init__: the base constructor, conserve_bonds = True and
\* initialize(); an enumeration that raises leaves no scheme
ConstructIsodesmic ==
    /\ pc = "new"
    /\ allowed_atom_types' = Keys(Molecule(target).atoms)
    /\ max_num_constraints' = MaxNumConstraints(Keys(Molecule(target).atoms))
    /\ conserve_bonds' = TRUE
    /\ conserve_ring_size' = TRUE
    /\ benchmark_set' = Prune(benchmark_input, Keys(Molecule(target).atoms))
    /\ LET r == CalculateConstraints(target,
                                     Prune(benchmark_input, Keys(Molecule(target).atoms)),
                                     <<>>, MaxNumConstraints(Keys(Molecule(target).atoms)),
                                     TRUE, TRUE)
       IN  /\ constraint_map' = r.mapping
           /\ IF r.raised
              THEN /\ ret' = Raised("IndexError")
                   /\ entry' = "construct"
                   /\ pc' = "failed"
                   /\ UNCHANGED <<target_constraint, constraint_matrix, solver>>
              ELSE /\ target_constraint' = Some(r.target_constraints)
                   /\ constraint_matrix' = Some(r.c_matrix)
                   /\ solver' = Solver(r.c_matrix, r.target_constraints)
                   /\ pc' = "idle"
                   /\ UNCHANGED <<entry, ret>>
    /\ UNCHANGED <<target, benchmark_input, n_reactions_max, milp_software, subset_queue,
                   reaction_list, last_solve, rxn, thermo, recordVars>>

\* one call of find_error_canceling_reaction and what the caller may see of it
Solve(subset, software, outcome) ==
    [subset |-> subset, software |-> software, status |-> outcome.status,
     solution |-> outcome.solution,
     result |-> FindErrorCancelingReaction(target, benchmark_set, subset, software, outcome)]

\* a caller's own find_error_canceling_reaction(benchmark_subset, milp_software)
FindReaction ==
    /\ pc = "idle"
    /\ \E subset \in Subsets(Len(benchmark_set)), software \in Software :
          /\ entry' = "find"
          /\ milp_software' = software
          /\ IF constraint_matrix.none
             THEN /\ ret' = Raised("TypeError")
                  /\ last_solve' = NoSolve
             ELSE \E outcome \in solver[software][subset] :
                      /\ last_solve' = Solve(subset, software, outcome)
                      /\ ret' = Returned(Solve(subset, software, outcome).result.kind)
    /\ pc' = "done"
    /\ UNCHANGED <<schemeVars, n_reactions_max, subset_queue, reaction_list, rxn, thermo, recordVars>>

\* a search that starts by dropping the cached target constraints
StartSearchResetting ==
    /\ pc = "idle"
    /\ \E e \in {"search", "enthalpy"}, n \in 0..MaxReactions, software \in Software :
          /\ entry' = e
          /\ n_reactions_max' = n
          /\ milp_software' = software
    /\ subset_queue' = <<Arange(Len(benchmark_set))>>
    /\ reaction_list' = <<>>
    /\ last_solve' = NoSolve
    /\ ret' = NoReturn
    /\ pc' = "search"
    /\ target_constraint' = NoneValue
    /\ UNCHANGED <<target, benchmark_input, allowed_atom_types, max_num_constraints,
                   conserve_bonds, conserve_ring_size, constraint_map, benchmark_set,
                   constraint_matrix, solver, rxn, thermo, recordVars>>

\* entering multiple_error_canceling_reaction_search, directly or from
\* calculate_target_enthalpy: the queue holds np.arange(0, len(benchmark_set))
StartSearch ==
    /\ pc = "idle"
    /\ \E e \in {"search", "enthalpy"}, n \in 0..MaxReactions, software \in Software :
          /\ entry' = e
          /\ n_reactions_max' = n
          /\ milp_software' = software
    /\ subset_queue' = <<Arange(Len(benchmark_set))>>
    /\ reaction_list' = <<>>
    /\ last_solve' = NoSolve
    /\ ret' = NoReturn
    /\ pc' = "search"
    /\ UNCHANGED <<schemeVars, rxn, thermo, recordVars>>

LoopCondition == Len(subset_queue) # 0 /\ Len(reaction_list) < n_reactions_max

\* a pop that leaves the subset in the queue
PopLeftKeeping(queue) == queue

\* subset = subset_queue.popleft(): what is left in the queue
PopLeft(queue) == Tail(queue)

\* an iteration that pops an empty subset: continue
SkipEmpty ==
    /\ pc = "search"
    /\ LoopCondition
    /\ Len(Head(subset_queue)) = 0
    /\ subset_queue' = PopLeft(subset_queue)
    /\ UNCHANGED <<pc, schemeVars, entry, n_reactions_max, milp_software, reaction_list,
                   last_solve, ret, rxn, thermo, recordVars>>

\* a solver that may end a repeated problem differently
AnswersAnew(software, subset) == solver[software][subset]

\* what a deterministic solver can end a solve with: what it ended the same
\* problem with before, if it has solved it before
Answers(software, subset) ==
    IF subset \in DOMAIN answered[software]
    THEN {answered[software][subset]}
    ELSE solver[software][subset]

\* an iteration that pops a subset and calls the finder on it; with
\* deterministic, the solver is one that repeats itself on a repeated problem
SearchIteration(deterministic) ==
    /\ pc = "search"
    /\ LoopCondition
    /\ Len(Head(subset_queue)) # 0
    /\ LET subset == Head(subset_queue)
       IN  IF constraint_matrix.none
           THEN /\ subset_queue' = PopLeft(subset_queue)
                /\ ret' = Raised("TypeError")
                /\ pc' = "done"
                /\ UNCHANGED <<reaction_list, last_solve, answered>>
           ELSE \E outcome \in (IF deterministic THEN Answers(milp_software, subset)
                                 ELSE solver[milp_software][subset]) :
                   LET call == Solve(subset, milp_software, outcome)
                   IN  /\ IF call.result.kind = "none"
                          THEN \* reaction, subset_indices = None
                               /\ subset_queue' = PopLeft(subset_queue)
                               /\ ret' = Raised("TypeError")
                               /\ pc' = "done"
                               /\ UNCHANGED reaction_list
                          ELSE IF call.result.kind = "none_pair"
                          THEN /\ subset_queue' = PopLeft(subset_queue)
                               /\ UNCHANGED <<reaction_list, ret, pc>>
                          ELSE /\ reaction_list' = Append(reaction_list, call.result.reaction)
                               /\ subset_queue' = Enqueue(PopLeft(subset_queue), subset,
                                                          call.result.subset_indices)
                               /\ UNCHANGED <<ret, pc>>
                       /\ last_solve' = call
                       /\ answered' = IF deterministic
                                      THEN [answered EXCEPT ![milp_software] = @ @@ (subset :> outcome)]
                                      ELSE answered
    /\ UNCHANGED <<schemeVars, entry, n_reactions_max, milp_software, rxn, thermo,
                   previous, seen_labels, last_lookup, first_enumerate, last_enumerate>>

SearchStep == SearchIteration(FALSE)

\* the loop ends: the search returns reaction_list, and, under
\* calculate_target_enthalpy, the median of the estimates is returned
SearchReturn ==
    /\ pc = "search"
    /\ ~LoopCondition
    /\ pc' = "done"
    /\ ret' = IF entry = "search" THEN Returned(reaction_list)
              ELSE Returned(ScalarQuantity(Median(H298List(reaction_list)), "J/mol"))
    /\ UNCHANGED <<schemeVars, entry, n_reactions_max, milp_software, subset_queue,
                   reaction_list, last_solve, rxn, thermo, recordVars>>

\* the caller drops what the call gave and is free to call again; with
\* remember, it keeps the arguments and the result of a search that ended
Release(remember) ==
    /\ pc = "done"
    /\ pc' = "idle"
    /\ entry' = "none"
    /\ n_reactions_max' = 0
    /\ milp_software' = "none"
    /\ subset_queue' = <<>>
    /\ reaction_list' = <<>>
    /\ last_solve' = NoSolve
    /\ ret' = NoReturn
    /\ previous' = IF remember /\ entry \in {"search", "enthalpy"}
                   THEN [n_reactions_max |-> n_reactions_max, milp_software |-> milp_software,
                         initialized |-> Initialized,
                         kind |-> ret.kind, reaction_list |-> reaction_list]
                   ELSE previous
    /\ UNCHANGED <<schemeVars, rxn, thermo, answered, seen_labels, last_lookup,
                   first_enumerate, last_enumerate>>

Forget == Release(FALSE)

Next ==
    \/ Construct
    \/ ConstructIsodesmic
    \/ Initialize
    \/ FindReaction
    \/ StartSearch
    \/ SkipEmpty
    \/ SearchStep
    \/ SearchReturn
    \/ Forget

Spec == Init /\ [][Next]_vars

\* ======================================= schemes on a benchmark list of four
InitFour ==
    /\ pc = "new"
    /\ target = "nC5H12"
    /\ benchmark_input \in {FourBenchmarks, <<"nC5H12">>}
    /\ allowed_atom_types = {}
    /\ max_num_constraints = 0
    /\ conserve_bonds = TRUE
    /\ conserve_ring_size = TRUE
    /\ constraint_map = <<>>
    /\ benchmark_set = <<>>
    /\ target_constraint = NoneValue
    /\ constraint_matrix = NoneValue
    /\ solver = NoSolver
    /\ entry = "none"
    /\ n_reactions_max = 0
    /\ milp_software = "none"
    /\ subset_queue = <<>>
    /\ reaction_list = <<>>
    /\ last_solve = NoSolve
    /\ ret = NoReturn
    /\ rxn = NoReaction
    /\ thermo = NoneValue
    /\ InitRecords

SpecFour == InitFour /\ [][Next]_vars

\* ============================== searches whose solver calls all return
\* the while loop of the search goes on: every call it makes returns
SearchLoop == SkipEmpty \/ SearchStep \/ SearchReturn

\* what every step of the loop changes: its position or its queue
loopVars == <<pc, subset_queue>>

SpecLive == Spec /\ WF_loopVars(SearchLoop)

\* ================================== searches with a deterministic solver
SearchStepDeterministic == SearchIteration(TRUE)

ForgetRemembering == Release(TRUE)

NextDeterministic ==
    \/ Construct
    \/ Initialize
    \/ StartSearch
    \/ SkipEmpty
    \/ SearchStepDeterministic
    \/ SearchReturn
    \/ ForgetRemembering

\* the schemes searched twice: the lists of at most two species and the three isomers
InitDeterministic ==
    /\ Init
    /\ (Len(benchmark_input) <= 2 \/ benchmark_input = <<"iC6H14", "neoC6H14", "mC6H14">>)

SpecDeterministic == InitDeterministic /\ [][NextDeterministic]_vars

\* ============================================ reactions built by a caller
\* ErrorCancelingReaction(target, species) for any target participant and any
\* map of benchmark participants to non-zero coefficients, and its
\* calculate_target_thermo()
TargetSpecies == Targets \cup {"C3H8"}

Coefficients == {c \in -MaxStoich..MaxStoich : c # 0}

SpeciesMaps ==
    UNION {[keys -> Coefficients] : keys \in {k \in SUBSET Benchmarks : Cardinality(k) <= MaxSpecies}}

InitReaction ==
    /\ pc = "reaction"
    /\ target = None
    /\ benchmark_input = <<>>
    /\ allowed_atom_types = {}
    /\ max_num_constraints = 0
    /\ conserve_bonds = TRUE
    /\ conserve_ring_size = TRUE
    /\ constraint_map = <<>>
    /\ benchmark_set = <<>>
    /\ target_constraint = NoneValue
    /\ constraint_matrix = NoneValue
    /\ solver = NoSolver
    /\ entry = "none"
    /\ n_reactions_max = 0
    /\ milp_software = "none"
    /\ subset_queue = <<>>
    /\ reaction_list = <<>>
    /\ last_solve = NoSolve
    /\ ret = NoReturn
    /\ rxn \in {ErrorCancelingReaction(t, m) : t \in TargetSpecies, m \in SpeciesMaps}
    /\ thermo = NoneValue
    /\ InitRecords

\* rxn.calculate_target_thermo()
CalcThermo ==
    /\ pc = "reaction"
    /\ thermo.none
    /\ thermo' = Some(CalculateTargetThermo(rxn))
    /\ UNCHANGED <<pc, schemeVars, callVars, rxn, recordVars>>

NextReaction == CalcThermo

SpecReaction == InitReaction /\ [][NextReaction]_vars

\* ============================================ a ConstraintMap of a caller
\* no scheme, no call and no reaction exist
NoScheme ==
    /\ target = None
    /\ benchmark_input = <<>>
    /\ benchmark_set = <<>>
    /\ target_constraint = NoneValue
    /\ constraint_matrix = NoneValue
    /\ solver = NoSolver
    /\ entry = "none"
    /\ n_reactions_max = 0
    /\ milp_software = "none"
    /\ subset_queue = <<>>
    /\ reaction_list = <<>>
    /\ last_solve = NoSolve
    /\ ret = NoReturn
    /\ rxn = NoReaction
    /\ thermo = NoneValue

\* ConstraintMap(): an empty dictionary
InitMap ==
    /\ pc = "map"
    /\ NoScheme
    /\ allowed_atom_types = {}
    /\ max_num_constraints = 0
    /\ conserve_bonds = TRUE
    /\ conserve_ring_size = TRUE
    /\ constraint_map = <<>>
    /\ InitRecords

\* constraint_map[item]
Lookup ==
    /\ pc = "map"
    /\ \E item \in Labels :
          LET got == ConstraintMapGetItem(constraint_map, item)
          IN  /\ constraint_map' = got.mapping
              /\ last_lookup' = [item |-> item, index |-> got.index,
                                 known |-> item \in Range(seen_labels)]
              /\ seen_labels' = IF item \in Range(seen_labels) THEN seen_labels
                                ELSE Append(seen_labels, item)
    /\ UNCHANGED <<pc, target, benchmark_input, allowed_atom_types, max_num_constraints,
                   conserve_bonds, conserve_ring_size, benchmark_set, target_constraint,
                   constraint_matrix, solver, callVars, rxn, thermo, answered, previous,
                   first_enumerate, last_enumerate>>

NextMap == Lookup

SpecMap == InitMap /\ [][NextMap]_vars

\* ======================================= a SpeciesConstraints of a caller
\* SpeciesConstraints(allowed_atom_types, conserve_bonds, conserve_ring_size)
InitConstraints ==
    /\ pc = "constraints"
    /\ NoScheme
    /\ allowed_atom_types \in AllowedAtomTypes
    /\ max_num_constraints = MaxNumConstraints(allowed_atom_types)
    /\ conserve_bonds \in BOOLEAN
    /\ conserve_ring_size \in BOOLEAN
    /\ constraint_map = <<>>
    /\ InitRecords

\* constraints.enumerate(molecule); a raise leaves no vector
EnumerateCall ==
    /\ pc = "constraints"
    /\ \E name \in Structures :
          LET e == Enumerate(constraint_map, max_num_constraints, conserve_bonds,
                             conserve_ring_size, Molecule(name))
              vector == IF e.raised THEN <<>> ELSE e.vector
          IN  /\ constraint_map' = e.mapping
              /\ last_enumerate' = [molecule |-> name, before |-> constraint_map,
                                    raised |-> e.raised, vector |-> vector,
                                    repeat |-> ~first_enumerate[name].none]
              /\ first_enumerate' =
                    IF first_enumerate[name].none
                    THEN [first_enumerate EXCEPT
                            ![name] = Some([raised |-> e.raised, vector |-> vector,
                                            size |-> ConstraintMapLen(e.mapping)])]
                    ELSE first_enumerate
    /\ UNCHANGED <<pc, target, benchmark_input, allowed_atom_types, max_num_constraints,
                   conserve_bonds, conserve_ring_size, benchmark_set, target_constraint,
                   constraint_matrix, solver, callVars, rxn, thermo, answered, previous,
                   seen_labels, last_lookup>>

NextConstraints == EnumerateCall

SpecConstraints == InitConstraints /\ [][NextConstraints]_vars

\* ================================================================== claims
\* the reactions the finder has handed out: the last call's and the search's list
ReturnedReactions ==
    (IF last_solve.result.kind = "reaction" THEN {last_solve.result.reaction} ELSE {})
    \cup Range(reaction_list)

\* the row of a benchmark species in the constraint matrix
RowOf(spec) ==
    constraint_matrix.value[CHOOSE i \in 1..Len(benchmark_set) : benchmark_set[i] = spec]

RECURSIVE Total(_, _)
Total(f, keys) ==
    IF keys = {} THEN 0
    ELSE LET k == CHOOSE x \in keys : TRUE IN f[k] + Total(f, keys \ {k})

\* what the structure collaborator counts of an element in a molecule
ElementCount(name, element) ==
    LET atoms == Molecule(name).atoms
    IN  Total([i \in 1..Len(atoms) |-> IF atoms[i][1] = element THEN atoms[i][2] ELSE 0],
              1..Len(atoms))

Elements(name) == Keys(Molecule(name).atoms)

Abs(x) == IF x < 0 THEN -x ELSE x

\* C1: every reaction the finder returns balances every retained constraint
\* column: the sum over its species of coefficient times the species' count
\* in the column is the target's count in that column; in particular every
\* element of the target is conserved.
C1_Balance ==
    \A r \in ReturnedReactions :
        /\ \A j \in 1..Len(target_constraint.value) :
              Total([s \in DOMAIN r.species |-> r.species[s] * RowOf(s)[j]], DOMAIN r.species)
                  = target_constraint.value[j]
        /\ \A e \in Elements(target) :
              Total([s \in DOMAIN r.species |-> r.species[s] * ElementCount(s, e)],
                    DOMAIN r.species)
                  = ElementCount(target, e)

\* a finder call has returned a reaction with species on both sides
C1_Witness ==
    /\ last_solve.result.kind = "reaction"
    /\ \E a, b \in DOMAIN last_solve.result.reaction.species :
          /\ last_solve.result.reaction.species[a] < 0
          /\ last_solve.result.reaction.species[b] > 0

\* C2: every coefficient of every returned reaction has magnitude 1..4 and the
\* magnitudes of a reaction sum to at most 20, for either backend and any
\* position of the species in the subset.
C2_CoefficientBounds ==
    \A r \in ReturnedReactions :
        /\ \A s \in DOMAIN r.species : Abs(r.species[s]) \in 1..UpperBound
        /\ Total([s \in DOMAIN r.species |-> Abs(r.species[s])], DOMAIN r.species) <= MaxTotal

\* C3: after construction a benchmark species of the list is in benchmark_set
\* exactly when every element of its structure occurs in the target's
\* structure, the retained species keep their order, and the constructor
\* raises nothing.
C3_Pruning ==
    pc # "new" =>
        /\ \A s \in Range(benchmark_input) :
              s \in Range(benchmark_set) <=> Elements(s) \subseteq Elements(target)
        /\ Range(benchmark_set) \subseteq Range(benchmark_input)
        /\ \A i, j \in 1..Len(benchmark_set) :
              i < j => \E a, b \in 1..Len(benchmark_input) :
                          a < b /\ benchmark_input[a] = benchmark_set[i]
                                /\ benchmark_input[b] = benchmark_set[j]
        /\ (entry = "none" => ret.kind = "none")

\* a scheme that dropped one species of its list and kept another
C3_Witness ==
    /\ pc = "idle"
    /\ benchmark_set # <<>>
    /\ \E s \in Range(benchmark_input) : s \notin Range(benchmark_set)

\* some element of the target occurs in no benchmark species of the list
TargetElementAbsent ==
    \E e \in Elements(target) : \A s \in Range(benchmark_input) : e \notin Elements(s)

\* every benchmark species of the list has an element the target lacks
AllBenchmarksForeign ==
    \A s \in Range(benchmark_input) : \E e \in Elements(s) : e \notin Elements(target)

\* C4 as stated: a target with an element absent from every benchmark species
\* leaves an empty benchmark set after the pruning of the constructor.
C4_AbsentElementEmpties ==
    (pc # "new" /\ TargetElementAbsent) => benchmark_set = <<>>

\* C4, amended: the benchmark set is empty after the pruning of the
\* constructor exactly when every benchmark species of the list has an element
\* that the target lacks; an element of the target that no benchmark species
\* has removes nothing.
C4_ForeignEmpties ==
    pc # "new" => (benchmark_set = <<>> <=> AllBenchmarksForeign)

\* a non-empty list pruned to nothing
C4_Witness ==
    /\ pc = "idle"
    /\ benchmark_input # <<>>
    /\ AllBenchmarksForeign
    /\ benchmark_set = <<>>

\* C5: on an initialized scheme whose target has an element that no benchmark
\* species has, and whenever the retained benchmark set is empty, the search
\* returns the empty list and raises nothing.
C5_NoSolutionReturnsEmpty ==
    (/\ pc = "done"
     /\ entry = "search"
     /\ Initialized
     /\ (TargetElementAbsent \/ benchmark_set = <<>>))
        => (ret.kind = "returned" /\ ret.value = <<>>)

\* C6: calculate_target_enthalpy on a search that found no reaction does not
\* return: it ends with an error the caller can observe.
C6_NoReactionFails ==
    (/\ pc = "done"
     /\ entry = "enthalpy"
     /\ Initialized
     /\ reaction_list = <<>>)
        => ret.kind = "raised"

\* C7: a solve that fails on a subset never aborts the search, for either
\* backend: no call of the search on an initialized scheme ends with an error.
C7_FailedSolveNeverAborts ==
    (/\ pc = "done"
     /\ entry \in {"search", "enthalpy"}
     /\ Initialized)
        => ret.kind # "raised"

\* C8: calculate_target_thermo returns, in J/mol, the sum of coefficient times
\* high-level enthalpy minus the low-level reaction enthalpy, the latter being
\* the sum of coefficient times low-level enthalpy minus the target's
\* low-level enthalpy; for the target at -72 kJ/mol and ethane (+1, -80 and
\* -84 kJ/mol) that is -76 kJ/mol.
C8_TargetThermo ==
    ~thermo.none =>
        LET coef(s) == IF s \in DOMAIN rxn.species THEN rxn.species[s] ELSE 0
            high == Total([s \in Benchmarks |-> coef(s) * ValueSI(HighLevelHf298(s))], Benchmarks)
            low == Total([s \in Benchmarks |-> coef(s) * ValueSI(LowLevelHf298(s))], Benchmarks)
            low_level_reaction_enthalpy == low - ValueSI(LowLevelHf298(rxn.target))
        IN  /\ thermo.value.units = "J/mol"
            /\ thermo.value.value_si = high - low_level_reaction_enthalpy
            /\ (rxn = ErrorCancelingReaction("C3H8", [s \in {"C2H6"} |-> 1])
                   => thermo.value.value_si = -76000)

\* the estimate of the example has been computed
C8_Witness ==
    /\ ~thermo.none
    /\ rxn = ErrorCancelingReaction("C3H8", [s \in {"C2H6"} |-> 1])

\* C9: the value calculate_target_enthalpy returns is the median of the
\* estimates of the reactions found: at most half of them lie below it and at
\* most half above, it is one of them or the mean of two of them, it is the
\* estimate itself for one reaction and the common value for equal estimates.
C9_Median ==
    (/\ pc = "done"
     /\ entry = "enthalpy"
     /\ ret.kind = "returned"
     /\ reaction_list # <<>>)
        => LET h == H298List(reaction_list)
               n == Len(h)
               med == ret.value.value_si
           IN  /\ ret.value.units = "J/mol"
               /\ 2 * Cardinality({i \in 1..n : h[i] < med}) <= n
               /\ 2 * Cardinality({i \in 1..n : h[i] > med}) <= n
               /\ \E i, j \in 1..n : 2 * med = h[i] + h[j]
               /\ (n = 1 => med = h[1])
               /\ ((\A i \in 1..n : h[i] = h[1]) => med = h[1])

\* an estimate returned over three reactions that do not all agree
C9_Witness ==
    /\ pc = "done"
    /\ entry = "enthalpy"
    /\ ret.kind = "returned"
    /\ Len(reaction_list) = 3
    /\ \E i \in 1..3 : H298List(reaction_list)[i] # H298List(reaction_list)[1]

\* C10: the result list never holds more than n_reactions_max reactions, no
\* subset is solved once it is full, and a search on an initialized scheme has
\* stopped only with the queue exhausted or the list full.
C10_StopsWhenFullOrExhausted ==
    /\ (pc \in {"search", "done"} /\ entry \in {"search", "enthalpy"})
          => Len(reaction_list) <= n_reactions_max
    /\ (pc = "done" /\ entry \in {"search", "enthalpy"} /\ Initialized)
          => (subset_queue = <<>> \/ Len(reaction_list) = n_reactions_max)

\* the search that has just ended had the arguments of the one before it, both
\* on the initialized scheme
SearchedTwice ==
    /\ pc = "done"
    /\ entry \in {"search", "enthalpy"}
    /\ Initialized
    /\ previous.initialized
    /\ previous.n_reactions_max = n_reactions_max
    /\ previous.milp_software = milp_software

\* C12: with a solver that ends the same problem the same way, a search run
\* twice on an unchanged scheme with the same arguments ends the same way both
\* times and gives the same sequence of reactions, so the same number of them.
C12_SameSearchTwice ==
    SearchedTwice =>
        /\ ret.kind = previous.kind
        /\ Len(reaction_list) = Len(previous.reaction_list)
        /\ reaction_list = previous.reaction_list

\* two equal searches of two reactions or more, on a scheme with a problem
\* that has more than one optimal solution
C12_Witness ==
    /\ SearchedTwice
    /\ Len(reaction_list) >= 2
    /\ \E subset \in DOMAIN solver[milp_software] :
          Cardinality({o \in solver[milp_software][subset] : o.solution # <<>>}) >= 2

\* C13: the target is never a key of the species of a reaction the finder
\* returns, whatever the benchmark list, a list holding the target included.
C13_TargetNeverAKey ==
    \A r \in ReturnedReactions : r.target \notin DOMAIN r.species

\* what the first enumerate call on the structure of the last call gave
FirstOfLast == first_enumerate[last_enumerate.molecule].value

\* C11: a structure enumerated again through the same SpeciesConstraints ends
\* as its first enumeration did and yields the same constraint vector, also
\* when structures bringing new labels were enumerated in between.
C11_SameVectorTwice ==
    (pc = "constraints" /\ last_enumerate.repeat) =>
        /\ last_enumerate.raised = FirstOfLast.raised
        /\ last_enumerate.vector = FirstOfLast.vector

\* a structure enumerated again after other structures have added labels
C11_Witness ==
    /\ pc = "constraints"
    /\ last_enumerate.repeat
    /\ ~last_enumerate.raised
    /\ ConstraintMapLen(last_enumerate.before) > FirstOfLast.size

\* C17: after any sequence of lookups the ConstraintMap holds exactly the
\* labels looked up so far, maps them one-to-one onto 0..size-1, gives the
\* i-th label first looked up the index i-1 for good, and a lookup returns the
\* index the map holds for the label.
C17_Bijection ==
    pc = "map" =>
        /\ DOMAIN constraint_map = Range(seen_labels)
        /\ {constraint_map[l] : l \in DOMAIN constraint_map}
              = 0..(ConstraintMapLen(constraint_map) - 1)
        /\ \A a, b \in DOMAIN constraint_map :
              a # b => constraint_map[a] # constraint_map[b]
        /\ \A i \in 1..Len(seen_labels) : constraint_map[seen_labels[i]] = i - 1
        /\ (last_lookup.item # None => constraint_map[last_lookup.item] = last_lookup.index)

\* a label looked up again after later labels were added
C17_Witness ==
    /\ pc = "map"
    /\ last_lookup.known
    /\ ConstraintMapLen(constraint_map) >= 3
    /\ last_lookup.index < ConstraintMapLen(constraint_map) - 1

\* C18: the constraint map of a SpeciesConstraints never holds more labels
\* than max_num_constraints, the state an enumerate call leaves when it fails
\* included.
C18_MapWithinMaximum ==
    pc = "constraints" => ConstraintMapLen(constraint_map) <= max_num_constraints

\* the labels enumerate looks up for a structure under the flags of the object
StructureLabels(name) ==
    Keys(Molecule(name).atoms)
    \cup (IF conserve_bonds THEN Keys(Molecule(name).bonds) ELSE {})
    \cup (IF conserve_ring_size THEN Keys(RingPairs(Molecule(name).rings)) ELSE {})

\* what the structure collaborator counts under a label
LabelCount(name, label) ==
    LET pairs == Molecule(name).atoms \o Molecule(name).bonds \o RingPairs(Molecule(name).rings)
    IN  Total([i \in 1..Len(pairs) |-> IF pairs[i][1] = label THEN pairs[i][2] ELSE 0],
              1..Len(pairs))

\* C19: an enumerate call that brings a new label when the labels known and
\* the labels of the structure together number more than max_num_constraints
\* fails in that call, and a vector that is returned holds the count of every
\* label of the structure at the index the map gives the label.
C19_OverflowFails ==
    (pc = "constraints" /\ last_enumerate.molecule # None) =>
        LET name == last_enumerate.molecule
            known == DOMAIN last_enumerate.before
            labels == StructureLabels(name)
        IN  /\ (/\ labels \ known # {}
                 /\ Cardinality(known \cup labels) > max_num_constraints)
                   => last_enumerate.raised
            /\ ~last_enumerate.raised =>
                   /\ Len(last_enumerate.vector) = max_num_constraints
                   /\ \A l \in labels :
                         /\ constraint_map[l] < max_num_constraints
                         /\ last_enumerate.vector[constraint_map[l] + 1] = LabelCount(name, l)
                   /\ SumSeq(last_enumerate.vector)
                         = Total([l \in labels |-> LabelCount(name, l)], labels)

\* the call that first brings the labels above the maximum has failed
C19_Witness ==
    /\ pc = "constraints"
    /\ last_enumerate.raised
    /\ ConstraintMapLen(last_enumerate.before) <= max_num_constraints
    /\ ConstraintMapLen(constraint_map) > max_num_constraints

\* the step about to be taken pops a non-empty subset and calls the finder
FinderCalled ==
    /\ pc = "search"
    /\ LoopCondition
    /\ Len(Head(subset_queue)) # 0
    /\ Initialized

\* the subsets the step has put at the end of the queue
Enqueued == SubSeq(subset_queue', Len(subset_queue), Len(subset_queue'))

\* the popped subset with the index of one benchmark species removed
Without(subset, spec) == SelectSeq(subset, LAMBDA x : benchmark_set[x + 1] # spec)

\* C14: a search step whose finder call returns a reaction appends that
\* reaction to the result list, keeps the rest of the queue and puts behind it
\* exactly one subset per species of the reaction, all with non-zero
\* coefficient: the popped subset without the index of that species.
C14_EnqueuesOnePerSpecies ==
    [][(FinderCalled /\ last_solve'.result.kind = "reaction") =>
          LET subset == Head(subset_queue)
              r == last_solve'.result.reaction
          IN  /\ last_solve'.subset = subset
              /\ reaction_list' = Append(reaction_list, r)
              /\ SubSeq(subset_queue', 1, Len(subset_queue) - 1) = Tail(subset_queue)
              /\ Len(Enqueued) = Cardinality(DOMAIN r.species)
              /\ Range(Enqueued) = {Without(subset, s) : s \in DOMAIN r.species}
              /\ \A s \in DOMAIN r.species :
                    /\ r.species[s] # 0
                    /\ Len(Without(subset, s)) = Len(subset) - 1]_vars

\* a reaction of two species found on a subset of three: two subsets of two
\* are at the end of the queue
C14_Witness ==
    /\ pc = "search"
    /\ last_solve.result.kind = "reaction"
    /\ Len(last_solve.subset) = 3
    /\ Cardinality(DOMAIN last_solve.result.reaction.species) = 2
    /\ Len(subset_queue) >= 2
    /\ reaction_list # <<>>

\* C15: a search step whose finder call returns no reaction leaves the result
\* list as it was and the queue as it was less the popped subset: nothing is
\* enqueued on account of the failure, the failed subset included.
C15_FailureEnqueuesNothing ==
    [][(FinderCalled /\ last_solve'.result.kind \in {"none", "none_pair"}) =>
          /\ reaction_list' = reaction_list
          /\ subset_queue' = Tail(subset_queue)]_vars

\* a solve has failed in a search that goes on with a reaction found and
\* subsets waiting
C15_Witness ==
    /\ pc = "search"
    /\ last_solve.result.kind = "none_pair"
    /\ reaction_list # <<>>
    /\ subset_queue # <<>>

\* C16: no step of find_error_canceling_reaction, of the search or of
\* calculate_target_enthalpy changes the target, the benchmark set, the
\* constraint map, the target constraint vector or the constraint matrix.
C16_CachesUnchanged ==
    [][entry' \in {"find", "search", "enthalpy"} =>
          UNCHANGED <<target, benchmark_set, constraint_map, target_constraint,
                      constraint_matrix>>]_vars

\* calculate_target_enthalpy has returned over two reactions or more
C16_Witness ==
    /\ pc = "done"
    /\ entry = "enthalpy"
    /\ Initialized
    /\ ret.kind = "returned"
    /\ Len(reaction_list) >= 2

\* the benchmark species of a row of the solution, rows counted from 1
SpeciesAt(row) ==
    benchmark_set[last_solve.subset[((row - 1) % Len(last_solve.subset)) + 1] + 1]

\* C20: the reaction the finder assembles holds, for every row of the
\* solution with a positive value v, the species at the row's position in the
\* subset with -v for a row of the reactant half and +v for a row of the
\* product half; rows with 0 add nothing, and every key is a species whose
\* index is in the subset.
C20_Assembly ==
    last_solve.result.kind = "reaction" =>
        LET solution == last_solve.solution
            split == Len(last_solve.subset)
            species == last_solve.result.reaction.species
            positive == {row \in 1..Len(solution) : solution[row] > 0}
        IN  /\ Len(solution) = 2 * split
            /\ \A row \in positive :
                  /\ SpeciesAt(row) \in DOMAIN species
                  /\ species[SpeciesAt(row)] =
                        IF row <= split THEN -solution[row] ELSE solution[row]
            /\ DOMAIN species = {SpeciesAt(row) : row \in positive}
            /\ DOMAIN species \subseteq {benchmark_set[x + 1] : x \in Range(last_solve.subset)}

\* a reaction with both halves used, assembled for a subset that does not
\* start at index 0
C20_Witness ==
    /\ last_solve.result.kind = "reaction"
    /\ last_solve.subset[1] # 0
    /\ \E a, b \in DOMAIN last_solve.result.reaction.species :
          /\ last_solve.result.reaction.species[a] < 0
          /\ last_solve.result.reaction.species[b] > 0

\* every species of the reaction has the same enthalpy at both levels
LevelsAgree(reaction) ==
    \A s \in DOMAIN reaction.species : ValueSI(HighLevelHf298(s)) = ValueSI(LowLevelHf298(s))

\* C30: calculate_target_thermo gives the target's low-level enthalpy plus the
\* sum over the species of coefficient times (high-level minus low-level
\* enthalpy); with species whose two levels agree, and with no species at
\* all, it gives the target's low-level enthalpy.
C30_Correction ==
    ~thermo.none =>
        LET correction(s) == rxn.species[s]
                               * (ValueSI(HighLevelHf298(s)) - ValueSI(LowLevelHf298(s)))
            target_low == ValueSI(LowLevelHf298(rxn.target))
        IN  /\ thermo.value.value_si
                  = target_low + Total([s \in DOMAIN rxn.species |-> correction(s)],
                                       DOMAIN rxn.species)
            /\ (LevelsAgree(rxn) => thermo.value.value_si = target_low)
            /\ (DOMAIN rxn.species = {} => thermo.value.value_si = target_low)

\* the estimate of a reaction whose only species has equal levels
C30_Witness ==
    /\ ~thermo.none
    /\ DOMAIN rxn.species # {}
    /\ LevelsAgree(rxn)

\* the labels of each kind that the structures of a caller have
ElementLabels == UNION {Keys(Molecule(s).atoms) : s \in Structures}
BondLabels == UNION {Keys(Molecule(s).bonds) : s \in Structures}
RingLabels == UNION {Keys(RingPairs(Molecule(s).rings)) : s \in Structures}

\* what the structure collaborator counts of a bond type in a molecule
BondCount(name, label) ==
    LET bonds == Molecule(name).bonds
    IN  Total([i \in 1..Len(bonds) |-> IF bonds[i][1] = label THEN bonds[i][2] ELSE 0],
              1..Len(bonds))

\* the smallest rings of a molecule whose size gives the label
RingCount(name, label) ==
    Cardinality({i \in 1..Len(Molecule(name).rings) : RingLabel(Molecule(name).rings[i]) = label})

\* the entry enumerate owes a label for a structure under the flags
Expected(name, label) ==
    IF label \in ElementLabels THEN ElementCount(name, label)
    ELSE IF label \in BondLabels THEN (IF conserve_bonds THEN BondCount(name, label) ELSE 0)
    ELSE IF label \in RingLabels THEN (IF conserve_ring_size THEN RingCount(name, label) ELSE 0)
    ELSE 0

\* C25: a vector enumerate returns has length max_num_constraints; the entry
\* at the index of a label is the structure's count of that element, its count
\* of that bond type if bonds are conserved, the number of its smallest rings
\* of that size if ring sizes are conserved; every other entry is 0; every
\* element of the structure has a label, and with a flag off the map holds no
\* label of that kind.
C25_EnumerateCounts ==
    (pc = "constraints" /\ last_enumerate.molecule # None /\ ~last_enumerate.raised) =>
        LET name == last_enumerate.molecule
            vector == last_enumerate.vector
            labelled(j) == {l \in DOMAIN constraint_map : constraint_map[l] = j - 1}
        IN  /\ Len(vector) = max_num_constraints
            /\ \A j \in 1..Len(vector) :
                  /\ (labelled(j) = {} => vector[j] = 0)
                  /\ \A l \in labelled(j) : vector[j] = Expected(name, l)
            /\ Keys(Molecule(name).atoms) \subseteq DOMAIN constraint_map
            /\ (conserve_bonds => Keys(Molecule(name).bonds) \subseteq DOMAIN constraint_map)
            /\ (conserve_ring_size =>
                   Keys(RingPairs(Molecule(name).rings)) \subseteq DOMAIN constraint_map)
            /\ (~conserve_bonds => DOMAIN constraint_map \cap BondLabels = {})
            /\ (~conserve_ring_size => DOMAIN constraint_map \cap RingLabels = {})

\* a ring structure enumerated with rings conserved and bonds not, after
\* other structures
C25_Witness ==
    /\ pc = "constraints"
    /\ ~conserve_bonds
    /\ conserve_ring_size
    /\ last_enumerate.molecule = "cC2H4O"
    /\ ~last_enumerate.raised
    /\ ConstraintMapLen(last_enumerate.before) > 0

\* the untrimmed vector enumerate gives a species with the map as it is
FullVector(name) ==
    Enumerate(constraint_map, max_num_constraints, conserve_bonds, conserve_ring_size,
              Molecule(name)).vector

\* C23: after initialize() the constraint matrix has one row for each species
\* of benchmark_set, in its order, and one column for each label of the
\* constraint map; the target constraint vector has that length too; each
\* entry is the count of the label of its column, and every entry the
\* trimming cut off was zero.
C23_TrimmedCaches ==
    Initialized =>
        LET cols == ConstraintMapLen(constraint_map)
            matrix == constraint_matrix.value
            t == target_constraint.value
        IN  /\ Len(matrix) = Len(benchmark_set)
            /\ Len(t) = cols
            /\ \A l \in DOMAIN constraint_map :
                  /\ constraint_map[l] < cols
                  /\ t[constraint_map[l] + 1] = LabelCount(target, l)
            /\ \A j \in (cols + 1)..max_num_constraints : FullVector(target)[j] = 0
            /\ \A i \in 1..Len(matrix) :
                  /\ Len(matrix[i]) = cols
                  /\ \A l \in DOMAIN constraint_map :
                        matrix[i][constraint_map[l] + 1] = LabelCount(benchmark_set[i], l)
                  /\ \A j \in (cols + 1)..max_num_constraints :
                        FullVector(benchmark_set[i])[j] = 0

\* initialized caches of three rows, a benchmark species having brought a
\* label the target lacks
C23_Witness ==
    /\ Initialized
    /\ Len(constraint_matrix.value) = 3
    /\ \E l \in DOMAIN constraint_map : LabelCount(target, l) = 0

\* C24: a call of find_error_canceling_reaction or of the search on a
\* constructed scheme, of the base class or of IsodesmicScheme, finds the
\* target constraint vector and the constraint matrix set.
C24_CachesSetBeforeQueries ==
    (/\ pc = "done"
     /\ \/ entry = "find"
        \/ /\ entry \in {"search", "enthalpy"}
           /\ (last_solve.software # "none" \/ ret.kind = "raised"))
        => Initialized

\* C26: a search starts with a queue of one subset, the indices 0..N-1 of the
\* whole benchmark set; a step of the loop takes the subset at the head, leaves
\* the rest in order and puts new subsets behind it; no subset then waiting is
\* larger than the one taken, so the sizes of the subsets processed never
\* increase.
C26_Fifo ==
    [][/\ (pc = "idle" /\ pc' = "search") =>
             subset_queue' = <<[i \in 1..Len(benchmark_set) |-> i - 1]>>
       /\ (pc = "search" /\ subset_queue' # subset_queue) =>
             /\ Len(subset_queue') >= Len(subset_queue) - 1
             /\ SubSeq(subset_queue', 1, Len(subset_queue) - 1) = Tail(subset_queue)
             /\ \A i \in 1..Len(subset_queue') :
                   Len(subset_queue'[i]) <= Len(Head(subset_queue))
       /\ (FinderCalled => last_solve'.subset = Head(subset_queue))]_vars

\* subsets of different sizes wait in the queue of a search that has found a
\* reaction
C26_Witness ==
    /\ pc = "search"
    /\ reaction_list # <<>>
    /\ Len(subset_queue) >= 2
    /\ Len(Head(subset_queue)) > Len(subset_queue[Len(subset_queue)])

\* C27: every subset a step of the search enqueues is strictly smaller than
\* the subset it was derived from, and a search whose solver calls all return
\* comes to its end, whatever the benchmark set, n_reactions_max and the
\* outcomes of the solves.
C27_Terminates ==
    /\ [][(pc = "search" /\ subset_queue' # subset_queue) =>
             \A i \in 1..Len(Enqueued) : Len(Enqueued[i]) < Len(Head(subset_queue))]_loopVars
    /\ (pc = "search" ~> pc = "done")

\* a search has returned with its queue exhausted and its list not full
C27_Witness ==
    /\ pc = "done"
    /\ entry = "search"
    /\ ret.kind = "returned"
    /\ subset_queue = <<>>
    /\ reaction_list # <<>>
    /\ Len(reaction_list) < n_reactions_max

IsPrefix(a, b) == Len(a) <= Len(b) /\ SubSeq(b, 1, Len(a)) = a

\* the search that has just returned and the one before it, both on the
\* initialized scheme with the same backend, have both returned a list
SearchedBoth ==
    /\ pc = "done"
    /\ entry \in {"search", "enthalpy"}
    /\ Initialized
    /\ previous.initialized
    /\ previous.milp_software = milp_software
    /\ ret.kind = "returned"
    /\ previous.kind = "returned"

\* C29: with a solver that ends the same problem the same way, of two
\* searches on an unchanged scheme the list of the one with the smaller
\* n_reactions_max is a prefix of the list of the other.
C29_CapTruncates ==
    SearchedBoth =>
        /\ (previous.n_reactions_max <= n_reactions_max
               => IsPrefix(previous.reaction_list, reaction_list))
        /\ (n_reactions_max <= previous.n_reactions_max
               => IsPrefix(reaction_list, previous.reaction_list))

\* a search cut short by its cap and then a longer one
C29_Witness ==
    /\ SearchedBoth
    /\ previous.n_reactions_max < n_reactions_max
    /\ previous.reaction_list # <<>>
    /\ Len(previous.reaction_list) < Len(reaction_list)

\* C28: the reactions of the list a search returns are pairwise distinct: no
\* two entries have the same species with the same coefficients.
C28_PairwiseDistinct ==
    (pc = "done" /\ entry = "search" /\ ret.kind = "returned") =>
        \A i, j \in 1..Len(ret.value) :
            i # j => ret.value[i].species # ret.value[j].species

\* the problem as specified for a subset: every variable in 0..4, total <= 20
Bounded(subset) ==
    [Problem(constraint_matrix.value, target_constraint.value, subset, "lpsolve")
        EXCEPT !.upbo = [col \in 1..(2 * Len(subset)) |-> UpperBound],
               !.total = MaxTotal]

\* a caller's finder call has returned
FinderReturned ==
    /\ pc = "done"
    /\ entry = "find"
    /\ last_solve.software # "none"

\* the solve ended within its budget
WithinBudget == last_solve.software = "lpsolve" => last_solve.status # 7

\* the solve ended with a status that reports success
Success == last_solve.status = (IF last_solve.software = "lpsolve" THEN 0 ELSE "ok")

\* C21: the finder returns absent when no assignment of integers 0..4 with
\* total at most 20 satisfies every balance equality, returns a reaction when
\* there is one and the solver finishes within its budget, and returns a
\* reaction only for a status that reports success.
C21_AbsentIffInfeasible ==
    FinderReturned =>
        LET F == Feasible(Bounded(last_solve.subset))
        IN  /\ (F = {} => last_solve.result.kind # "reaction")
            /\ ((F # {} /\ WithinBudget) => last_solve.result.kind = "reaction")
            /\ (last_solve.result.kind = "reaction" => Success)

\* the objective of a reaction: the sum over its species of the coefficient
\* value times the total of the species' row of the constraint matrix
ReactionObjective(reaction) ==
    Total([s \in DOMAIN reaction.species |-> Abs(reaction.species[s]) * SumSeq(RowOf(s))],
          DOMAIN reaction.species)

\* C22: the reaction the finder returns for a subset minimises the objective:
\* no balanced assignment within the bounds for that subset has a smaller sum
\* of coefficient value times row total than the returned reaction.
C22_Minimal ==
    (FinderReturned /\ last_solve.result.kind = "reaction") =>
        LET B == Bounded(last_solve.subset)
        IN  \A v \in Feasible(B) :
                ReactionObjective(last_solve.result.reaction) <= Objective(B, v)

\* a reaction was returned for a subset that has balanced assignments within
\* the bounds of more than one objective value, the returned one among them
C22_Witness ==
    /\ FinderReturned
    /\ last_solve.result.kind = "reaction"
    /\ LET B == Bounded(last_solve.subset)
       IN  /\ last_solve.solution \in Feasible(B)
           /\ \E v \in Feasible(B) :
                  Objective(B, v) > ReactionObjective(last_solve.result.reaction)

====
